---- MODULE Spec2Model ----
(***************************************************************************)
(* Complaint lifecycle and category counters of the Speak-Up server.       *)
(*                                                                         *)
(* The complaint collection and the category collection are the state.     *)
(* A request handler reads and writes its complaint document in one step;  *)
(* the post('save') hook of the Complaint model, which reconciles the      *)
(* counters of the category document, runs as a process with one step per  *)
(* awaited store call (findById, countDocuments, countDocuments, save), so *)
(* hooks of different requests interleave as they do on the event loop.    *)
(*                                                                         *)
(* Document.save() of Mongoose sends the paths modified in memory, not the *)
(* whole document, and keeps a version (__v) that array pushes and pulls   *)
(* increment.  A save whose document changed version since it was read is  *)
(* either refused (VersionError) or applied: both outcomes are modelled.   *)
(***************************************************************************)
EXTENDS Integers, Sequences, FiniteSets, TLC

(* ---------------------------------------------------------------- bounds *)
MaxComplaints == 3
MaxCategories == 2
MaxSubs == 2
MaxInflight == 2
MaxComments == 1
MaxShares == 1
\* the concurrent specification and the lifecycle specification stop earlier
ConcComplaints == 2
SeqComplaints == 3
RecatComplaints == 2
RaceComplaints == 3
ConcCategories == 1
LifeComplaints == 1
TaxComplaints == 2
ReadComplaints == 2
MaxPage == 2
MaxLimit == 2
OwnerComplaints == 2
TouchComplaints == 2

(* ------------------------------------------------------------ principals *)
Users == {"u1", "u2", "adm"}
Role(u) == IF u = "adm" THEN "admin" ELSE "user"

ComplaintIds == 1..MaxComplaints
CatIds == 1..MaxCategories
SubIds == 1..MaxSubs
ProcIds == 1..MaxInflight
CatNames == {"Billing", "Service"}
SubNames == {"Refund", "Delay"}

StatusEnum == {"pending", "in-progress", "resolved", "rejected"}
PriorityEnum == {"low", "medium", "high"}

VARIABLES
    complaints,   \* the complaints collection: id -> document
    nextId,       \* the next complaint id (ids are never reused)
    categories,   \* the categories collection: id -> document
    nextCat,      \* the next category id
    nextSub,      \* the next subcategory id
    procs,        \* in-flight handlers suspended at an await
    resp          \* the last response sent: [op, code]

vars == <<complaints, nextId, categories, nextCat, nextSub, procs, resp>>

(* --------------------------------------------------------------- helpers *)
EmptyFcn == [x \in {} |-> 0]
NoResolution == [text |-> "", by |-> ""]

RECURSIVE SumOver(_, _)
SumOver(f, S) ==
    IF S = {} THEN 0
    ELSE LET x == CHOOSE y \in S : TRUE
         IN f[x] + SumOver(f, S \ {x})

Put(f, k, val) == [x \in DOMAIN f \cup {k} |-> IF x = k THEN val ELSE f[x]]
Drop(f, k) == [x \in DOMAIN f \ {k} |-> f[x]]

(* --------------------------------------------------- Complaint model ---- *)
\* complaintSchema.pre('save'): priorityValue from the priority string
PriorityValueOf(priority) ==
    CASE priority = "low" -> 0
      [] priority = "high" -> 2
      [] OTHER -> 1

PreSave(c) == [c EXCEPT !.priorityValue = PriorityValueOf(c.priority)]

\* new Complaint({...}) with the schema defaults
NewComplaint(user, category, subCategory, priority) ==
    [user |-> user, category |-> category, subCategory |-> subCategory,
     status |-> "pending",
     priority |-> IF priority = "none" THEN "medium" ELSE priority,
     priorityValue |-> 1,
     resolution |-> NoResolution,
     comments |-> <<>>,
     sharedEmail |-> 0,
     sharedSocial |-> 0]

\* Complaint.countDocuments({category, subCategory})
CountSub(store, category, subCategory) ==
    Cardinality({i \in DOMAIN store :
        store[i].category = category /\ store[i].subCategory = subCategory})

\* Complaint.countDocuments({category, user})
CountUser(store, category, user) ==
    Cardinality({i \in DOMAIN store :
        store[i].category = category /\ store[i].user = user})

(* ---------------------------------------------------- Category model ---- *)
NewCategory(name) ==
    [name |-> name, subCategories |-> EmptyFcn, totalComplaints |-> 0,
     userCounts |-> <<>>, v |-> 0]

NewSubCategory(name) == [name |-> name, totalComplaints |-> 0]

\* categorySchema.methods.calculateTotalComplaints
CalculateTotalComplaints(doc) ==
    IF DOMAIN doc.subCategories # {}
    THEN [doc EXCEPT !.totalComplaints =
            SumOver([s \in DOMAIN doc.subCategories |->
                        doc.subCategories[s].totalComplaints],
                    DOMAIN doc.subCategories)]
    ELSE doc

\* category.userCounts.find(uc => uc.user.equals(user)): index of the first
\* entry of the user, 0 when there is none
UserCountIndex(doc, user) ==
    LET hits == {i \in 1..Len(doc.userCounts) : doc.userCounts[i].user = user}
    IN IF hits = {} THEN 0 ELSE CHOOSE i \in hits : \A j \in hits : i <= j

\* the count a new userCounts entry is pushed with
InitialUserCount(store, category, user) == 1

\* the userCounts branch of the post('save') hook, on the in-memory document
PushUserCount(doc, store, category, user) ==
    [doc EXCEPT !.userCounts =
        Append(@, [user |-> user,
                   count |-> InitialUserCount(store, category, user)])]

SetUserCount(doc, idx, n) == [doc EXCEPT !.userCounts[idx].count = n]

SetSubTotal(doc, s, n) == [doc EXCEPT !.subCategories[s].totalComplaints = n]

\* Document.save() of a category: the paths that differ between the document
\* as read (orig) and as modified in memory (mem) are applied to the stored
\* document (cur): $set of a subdocument field, $push and $pull of array
\* elements, $set of a top-level field.  A push or pull increments __v.
ArraysChanged(orig, mem) ==
    \/ DOMAIN mem.subCategories # DOMAIN orig.subCategories
    \/ Len(mem.userCounts) # Len(orig.userCounts)

ApplySave(orig, mem, cur) ==
    LET keptSubs == (DOMAIN cur.subCategories
                        \ (DOMAIN orig.subCategories \ DOMAIN mem.subCategories))
                    \cup (DOMAIN mem.subCategories \ DOMAIN orig.subCategories)
        subs == [s \in keptSubs |->
                    IF s \notin DOMAIN orig.subCategories
                    THEN IF s \in DOMAIN mem.subCategories
                         THEN mem.subCategories[s] ELSE cur.subCategories[s]
                    ELSE IF s \in DOMAIN mem.subCategories
                            /\ mem.subCategories[s] # orig.subCategories[s]
                         THEN [name |->
                                 IF mem.subCategories[s].name # orig.subCategories[s].name
                                 THEN mem.subCategories[s].name
                                 ELSE cur.subCategories[s].name,
                               totalComplaints |->
                                 IF mem.subCategories[s].totalComplaints
                                        # orig.subCategories[s].totalComplaints
                                 THEN mem.subCategories[s].totalComplaints
                                 ELSE cur.subCategories[s].totalComplaints]
                         ELSE cur.subCategories[s]]
        setCounts == [i \in 1..Len(cur.userCounts) |->
                        IF i <= Len(orig.userCounts)
                           /\ mem.userCounts[i].count # orig.userCounts[i].count
                        THEN [cur.userCounts[i] EXCEPT !.count = mem.userCounts[i].count]
                        ELSE cur.userCounts[i]]
        pushed == SubSeq(mem.userCounts, Len(orig.userCounts) + 1, Len(mem.userCounts))
    IN [name |-> IF mem.name # orig.name THEN mem.name ELSE cur.name,
        subCategories |-> subs,
        totalComplaints |-> IF mem.totalComplaints # orig.totalComplaints
                            THEN mem.totalComplaints ELSE cur.totalComplaints,
        userCounts |-> setCounts \o pushed,
        v |-> IF ArraysChanged(orig, mem) THEN cur.v + 1 ELSE cur.v]

(* -------------------------------------------------------------- processes *)
Idle == [pc |-> "idle", op |-> "", this |-> 0, user |-> "", category |-> 0,
         subCategory |-> 0, orig |-> NewCategory(""), mem |-> NewCategory("")]

Quiescent == \A p \in ProcIds : procs[p].pc = "idle"

FreeProc == CHOOSE p \in ProcIds :
                /\ procs[p].pc = "idle"
                /\ \A q \in ProcIds : procs[q].pc = "idle" => p <= q

HasFreeProc == \E p \in ProcIds : procs[p].pc = "idle"

\* complaint.save() has written the document c under id; its post('save')
\* hook starts with the values of the in-memory document
StartPostSave(op, id, c) ==
    [Idle EXCEPT !.pc = "find", !.op = op, !.this = id, !.user = c.user,
                 !.category = c.category, !.subCategory = c.subCategory]

SuccessCode(op) == IF op = "create" THEN 201 ELSE 200

Init ==
    /\ complaints = EmptyFcn
    /\ nextId = 1
    /\ categories = EmptyFcn
    /\ nextCat = 1
    /\ nextSub = 1
    /\ procs = [p \in ProcIds |-> Idle]
    /\ resp = [op |-> "", code |-> 0]

(* ------------------------------------------------ category controller ---- *)
\* the response of a handler that ends without suspending
Respond(op, code) == resp' = [op |-> op, code |-> code]

\* createCategory up to `await category.save()`: the name check
CreateCategory(name) ==
    /\ nextCat <= MaxCategories
    /\ HasFreeProc
    /\ UNCHANGED <<complaints, nextId, categories, nextSub>>
    /\ IF \E k \in DOMAIN categories : categories[k].name = name
       THEN /\ Respond("createCategory", 400)
            /\ UNCHANGED <<procs, nextCat>>
       ELSE /\ procs' = [procs EXCEPT ![FreeProc] =
                    [Idle EXCEPT !.pc = "insertCategory", !.op = "createCategory",
                                 !.category = nextCat, !.mem = NewCategory(name)]]
            /\ nextCat' = nextCat + 1
            /\ UNCHANGED resp

\* InsertCategory on a collection without the unique index on name
InsertCategoryNoIndex(p) ==
    /\ procs[p].pc = "insertCategory"
    /\ procs' = [procs EXCEPT ![p] = Idle]
    /\ UNCHANGED <<complaints, nextId, nextCat, nextSub>>
    /\ categories' = Put(categories, procs[p].category, procs[p].mem)
    /\ Respond("createCategory", 201)

\* category.save() of a new document: the unique index on name decides
InsertCategory(p) ==
    /\ procs[p].pc = "insertCategory"
    /\ procs' = [procs EXCEPT ![p] = Idle]
    /\ UNCHANGED <<complaints, nextId, nextCat, nextSub>>
    /\ IF \E k \in DOMAIN categories : categories[k].name = procs[p].mem.name
       THEN /\ Respond("createCategory", 500)
            /\ UNCHANGED categories
       ELSE /\ categories' = Put(categories, procs[p].category, procs[p].mem)
            /\ Respond("createCategory", 201)

\* addSubCategory up to `await category.save()`
AddSubCategory(k, name) ==
    /\ nextSub <= MaxSubs
    /\ HasFreeProc
    /\ UNCHANGED <<complaints, nextId, categories, nextCat>>
    /\ IF k \notin DOMAIN categories
       THEN /\ Respond("addSubCategory", 404)
            /\ UNCHANGED <<procs, nextSub>>
       ELSE IF \E s \in DOMAIN categories[k].subCategories :
                    categories[k].subCategories[s].name = name
       THEN /\ Respond("addSubCategory", 400)
            /\ UNCHANGED <<procs, nextSub>>
       ELSE /\ procs' = [procs EXCEPT ![FreeProc] =
                    [Idle EXCEPT !.pc = "saveCategory", !.op = "addSubCategory",
                                 !.category = k, !.orig = categories[k],
                                 !.mem = [categories[k] EXCEPT !.subCategories =
                                            Put(@, nextSub, NewSubCategory(name))]]]
            /\ nextSub' = nextSub + 1
            /\ UNCHANGED resp

\* updateCategory up to its second await: Category.findById
UpdateCategory(k, name) ==
    /\ HasFreeProc
    /\ UNCHANGED <<complaints, nextId, categories, nextCat, nextSub>>
    /\ IF k \notin DOMAIN categories
       THEN /\ Respond("updateCategory", 404)
            /\ UNCHANGED procs
       ELSE /\ procs' = [procs EXCEPT ![FreeProc] =
                    [Idle EXCEPT !.pc = IF name # categories[k].name
                                        THEN "checkName" ELSE "saveCategory",
                                 !.op = "updateCategory",
                                 !.category = k, !.orig = categories[k],
                                 !.mem = [categories[k] EXCEPT !.name = name]]]
            /\ UNCHANGED resp

\* updateCategory: Category.findOne({ name }) when the name changes
CheckCategoryName(p) ==
    /\ procs[p].pc = "checkName"
    /\ UNCHANGED <<complaints, nextId, categories, nextCat, nextSub>>
    /\ IF \E j \in DOMAIN categories : categories[j].name = procs[p].mem.name
       THEN /\ procs' = [procs EXCEPT ![p] = Idle]
            /\ Respond("updateCategory", 400)
       ELSE /\ procs' = [procs EXCEPT ![p].pc = "saveCategory"]
            /\ UNCHANGED resp

\* updateSubCategory up to `await category.save()`
UpdateSubCategory(k, s, name) ==
    /\ HasFreeProc
    /\ UNCHANGED <<complaints, nextId, categories, nextCat, nextSub>>
    /\ IF k \notin DOMAIN categories \/ s \notin DOMAIN categories[k].subCategories
       THEN /\ Respond("updateSubCategory", 404)
            /\ UNCHANGED procs
       ELSE /\ procs' = [procs EXCEPT ![FreeProc] =
                    [Idle EXCEPT !.pc = "saveCategory", !.op = "updateSubCategory",
                                 !.category = k, !.orig = categories[k],
                                 !.mem = [categories[k] EXCEPT
                                            !.subCategories[s].name = name]]]
            /\ UNCHANGED resp

\* DeleteSubCategory without the totalComplaints check
DeleteSubCategoryUnguarded(k, s) ==
    /\ HasFreeProc
    /\ UNCHANGED <<complaints, nextId, categories, nextCat, nextSub>>
    /\ IF k \notin DOMAIN categories \/ s \notin DOMAIN categories[k].subCategories
       THEN /\ Respond("deleteSubCategory", 404)
            /\ UNCHANGED procs
       ELSE /\ procs' = [procs EXCEPT ![FreeProc] =
                    [Idle EXCEPT !.pc = "saveCategory", !.op = "deleteSubCategory",
                                 !.category = k, !.orig = categories[k],
                                 !.mem = [categories[k] EXCEPT !.subCategories =
                                            Drop(@, s)]]]
            /\ UNCHANGED resp

\* deleteSubCategory up to `await category.save()`
DeleteSubCategory(k, s) ==
    /\ HasFreeProc
    /\ UNCHANGED <<complaints, nextId, categories, nextCat, nextSub>>
    /\ IF k \notin DOMAIN categories \/ s \notin DOMAIN categories[k].subCategories
       THEN /\ Respond("deleteSubCategory", 404)
            /\ UNCHANGED procs
       ELSE IF categories[k].subCategories[s].totalComplaints > 0
       THEN /\ Respond("deleteSubCategory", 400)
            /\ UNCHANGED procs
       ELSE /\ procs' = [procs EXCEPT ![FreeProc] =
                    [Idle EXCEPT !.pc = "saveCategory", !.op = "deleteSubCategory",
                                 !.category = k, !.orig = categories[k],
                                 !.mem = [categories[k] EXCEPT !.subCategories =
                                            Drop(@, s)]]]
            /\ UNCHANGED resp

\* the `await category.save()` that ends a category handler; a changed name
\* is subject to the unique index
SaveCategory(p, applied) ==
    LET k == procs[p].category
        op == procs[p].op
    IN /\ procs[p].pc = "saveCategory"
       /\ procs' = [procs EXCEPT ![p] = Idle]
       /\ UNCHANGED <<complaints, nextId, nextCat, nextSub>>
       /\ IF k \notin DOMAIN categories
          THEN /\ applied
               /\ Respond(op, 500)
               /\ UNCHANGED categories
          ELSE IF categories[k].v # procs[p].orig.v /\ ~applied
          THEN /\ Respond(op, 500)
               /\ UNCHANGED categories
          ELSE IF /\ procs[p].mem.name # procs[p].orig.name
                  /\ \E j \in DOMAIN categories \ {k} :
                        categories[j].name = procs[p].mem.name
          THEN /\ applied
               /\ Respond(op, 500)
               /\ UNCHANGED categories
          ELSE /\ applied
               /\ categories' = [categories EXCEPT ![k] =
                                    ApplySave(procs[p].orig, procs[p].mem, @)]
               /\ Respond(op, CASE op = "addSubCategory" -> 201
                                [] op = "updateCategory" -> 200
                                [] op = "updateSubCategory" -> 200
                                [] OTHER -> 204)

\* deleteCategory up to `await category.deleteOne()`
DeleteCategory(k) ==
    /\ HasFreeProc
    /\ UNCHANGED <<complaints, nextId, categories, nextCat, nextSub>>
    /\ IF k \notin DOMAIN categories
       THEN /\ Respond("deleteCategory", 404)
            /\ UNCHANGED procs
       ELSE IF categories[k].totalComplaints > 0
       THEN /\ Respond("deleteCategory", 400)
            /\ UNCHANGED procs
       ELSE /\ procs' = [procs EXCEPT ![FreeProc] =
                    [Idle EXCEPT !.pc = "removeCategory", !.op = "deleteCategory",
                                 !.category = k]]
            /\ UNCHANGED resp

\* category.deleteOne()
RemoveCategory(p) ==
    /\ procs[p].pc = "removeCategory"
    /\ procs' = [procs EXCEPT ![p] = Idle]
    /\ categories' = Drop(categories, procs[p].category)
    /\ Respond("deleteCategory", 204)
    /\ UNCHANGED <<complaints, nextId, nextCat, nextSub>>

(* ------------------------------------------- Complaint post('save') hook ---- *)
\* ops whose handler awaits a notification mail after complaint.save()
MailOps == {"create", "status"}

\* the handler's response once complaint.save() has returned (ok) or thrown
Finish(p, ok, mailOk) ==
    /\ procs' = [procs EXCEPT ![p] = Idle]
    /\ resp' = [op |-> procs[p].op,
                code |-> IF ok /\ (mailOk \/ procs[p].op \notin MailOps)
                         THEN SuccessCode(procs[p].op) ELSE 500]

\* the hook after the subcategory recount: the userCounts branch up to the
\* next await
AfterSubCategory(pr, doc) ==
    IF UserCountIndex(doc, pr.user) = 0
    THEN [pr EXCEPT !.pc = "save",
                    !.mem = CalculateTotalComplaints(
                                PushUserCount(doc, complaints, pr.category, pr.user))]
    ELSE [pr EXCEPT !.pc = "countUser", !.mem = doc]

\* const category = await Category.findById(this.category)
HookFind(p, mailOk) ==
    LET pr == procs[p]
    IN /\ pr.pc = "find"
       /\ UNCHANGED <<complaints, nextId, categories, nextCat, nextSub>>
       /\ IF pr.category \notin DOMAIN categories
          THEN Finish(p, TRUE, mailOk)
          ELSE /\ mailOk
               /\ UNCHANGED resp
               /\ LET doc == categories[pr.category]
                      read == [pr EXCEPT !.orig = doc, !.mem = doc]
                  IN procs' = [procs EXCEPT ![p] =
                        IF pr.subCategory \in DOMAIN doc.subCategories
                        THEN [read EXCEPT !.pc = "countSub"]
                        ELSE AfterSubCategory(read, doc)]

\* subCategory.totalComplaints = await countDocuments({category, subCategory})
HookCountSub(p) ==
    LET pr == procs[p]
    IN /\ pr.pc = "countSub"
       /\ procs' = [procs EXCEPT ![p] =
            AfterSubCategory(pr, SetSubTotal(pr.mem, pr.subCategory,
                CountSub(complaints, pr.category, pr.subCategory)))]
       /\ UNCHANGED <<complaints, nextId, categories, nextCat, nextSub, resp>>

\* userCount.count = await countDocuments({category, user})
HookCountUser(p) ==
    LET pr == procs[p]
    IN /\ pr.pc = "countUser"
       /\ procs' = [procs EXCEPT ![p] =
            [pr EXCEPT !.pc = "save",
                       !.mem = CalculateTotalComplaints(
                            SetUserCount(pr.mem, UserCountIndex(pr.mem, pr.user),
                                CountUser(complaints, pr.category, pr.user)))]]
       /\ UNCHANGED <<complaints, nextId, categories, nextCat, nextSub, resp>>

\* await category.save(), then the rest of the handler
HookSave(p, applied, mailOk) ==
    LET pr == procs[p]
        k == pr.category
    IN /\ pr.pc = "save"
       /\ UNCHANGED <<complaints, nextId, nextCat, nextSub>>
       /\ IF k \notin DOMAIN categories
          THEN /\ applied /\ mailOk
               /\ Finish(p, FALSE, TRUE)
               /\ UNCHANGED categories
          ELSE IF categories[k].v # pr.orig.v /\ ~applied
          THEN /\ mailOk
               /\ Finish(p, FALSE, TRUE)
               /\ UNCHANGED categories
          ELSE /\ applied
               /\ categories' = [categories EXCEPT ![k] = ApplySave(pr.orig, pr.mem, @)]
               /\ Finish(p, TRUE, mailOk)

(* ------------------------------------------------------ complaint routes ---- *)
\* POST /complaints up to the post('save') hook
CreateComplaint(u, k, s, priority) ==
    /\ nextId <= MaxComplaints
    /\ HasFreeProc
    /\ LET c == PreSave(NewComplaint(u, k, s, priority))
       IN /\ complaints' = Put(complaints, nextId, c)
          /\ procs' = [procs EXCEPT ![FreeProc] = StartPostSave("create", nextId, c)]
    /\ nextId' = nextId + 1
    /\ UNCHANGED <<categories, nextCat, nextSub, resp>>

\* POST /complaints that goes on although an upload failed
PostComplaintIgnoringUpload(u, k, s, priority, uploadOk) ==
    CreateComplaint(u, k, s, priority)

\* POST /complaints with attachments: the upload loop runs before the
\* complaint is built; an upload that throws ends the handler in its catch
PostComplaint(u, k, s, priority, uploadOk) ==
    IF uploadOk
    THEN CreateComplaint(u, k, s, priority)
    ELSE /\ Respond("create", 500)
         /\ UNCHANGED <<complaints, nextId, categories, nextCat, nextSub, procs>>

\* DELETE /complaints/:id without the owner in the filter
DeleteComplaintAnyCaller(u, id) ==
    /\ UNCHANGED <<nextId, categories, nextCat, nextSub, procs>>
    /\ IF id \in DOMAIN complaints
       THEN /\ complaints' = Drop(complaints, id)
            /\ Respond("delete", 200)
       ELSE /\ UNCHANGED complaints
            /\ Respond("delete", 404)

\* DELETE /complaints/:id
DeleteComplaint(u, id) ==
    /\ UNCHANGED <<nextId, categories, nextCat, nextSub, procs>>
    /\ IF id \in DOMAIN complaints /\ complaints[id].user = u
       THEN /\ complaints' = Drop(complaints, id)
            /\ Respond("delete", 200)
       ELSE /\ UNCHANGED complaints
            /\ Respond("delete", 404)

\* { $set: req.body } of findOneAndUpdate
ApplyPatch(c, body) ==
    [f \in DOMAIN c |-> IF f \in DOMAIN body THEN body[f] ELSE c[f]]

\* the express-validator chain of PUT /complaints/:id
ValidPatch(body) == "priority" \in DOMAIN body => body.priority \in PriorityEnum

\* PUT /complaints/:id
UpdateComplaint(u, id, body, mailOk) ==
    /\ UNCHANGED <<nextId, categories, nextCat, nextSub, procs>>
    /\ IF ~ValidPatch(body)
       THEN /\ mailOk
            /\ UNCHANGED complaints
            /\ Respond("update", 400)
       ELSE IF id \in DOMAIN complaints /\ complaints[id].user = u
       THEN /\ complaints' = [complaints EXCEPT ![id] = ApplyPatch(@, body)]
            /\ Respond("update", IF mailOk THEN 200 ELSE 500)
       ELSE /\ mailOk
            /\ UNCHANGED complaints
            /\ Respond("update", 404)

\* POST /complaints/:id/comments up to the post('save') hook
AddComment(u, id) ==
    /\ UNCHANGED <<nextId, categories, nextCat, nextSub>>
    /\ IF id \in DOMAIN complaints /\ complaints[id].user = u
       THEN /\ HasFreeProc
            /\ Len(complaints[id].comments) < MaxComments
            /\ LET c == PreSave([complaints[id] EXCEPT !.comments = Append(@, u)])
               IN /\ complaints' = [complaints EXCEPT ![id] = c]
                  /\ procs' = [procs EXCEPT ![FreeProc] = StartPostSave("comment", id, c)]
            /\ UNCHANGED resp
       ELSE /\ UNCHANGED <<complaints, procs>>
            /\ Respond("comment", 404)

\* POST /complaints/:id/share/email up to the post('save') hook
ShareEmail(u, id, mailOk) ==
    /\ UNCHANGED <<nextId, categories, nextCat, nextSub>>
    /\ IF id \notin DOMAIN complaints
       THEN /\ mailOk
            /\ UNCHANGED <<complaints, procs>>
            /\ Respond("shareEmail", 404)
       ELSE IF ~mailOk
       THEN /\ UNCHANGED <<complaints, procs>>
            /\ Respond("shareEmail", 500)
       ELSE /\ HasFreeProc
            /\ complaints[id].sharedEmail < MaxShares
            /\ LET c == PreSave([complaints[id] EXCEPT !.sharedEmail = @ + 1])
               IN /\ complaints' = [complaints EXCEPT ![id] = c]
                  /\ procs' = [procs EXCEPT ![FreeProc] = StartPostSave("shareEmail", id, c)]
            /\ UNCHANGED resp

\* POST /complaints/:id/share/social up to the post('save') hook
ShareSocial(u, id) ==
    /\ UNCHANGED <<nextId, categories, nextCat, nextSub>>
    /\ IF id \in DOMAIN complaints /\ complaints[id].user = u
       THEN /\ HasFreeProc
            /\ complaints[id].sharedSocial < MaxShares
            /\ LET c == PreSave([complaints[id] EXCEPT !.sharedSocial = @ + 1])
               IN /\ complaints' = [complaints EXCEPT ![id] = c]
                  /\ procs' = [procs EXCEPT ![FreeProc] = StartPostSave("shareSocial", id, c)]
            /\ UNCHANGED resp
       ELSE /\ UNCHANGED <<complaints, procs>>
            /\ Respond("shareSocial", 404)

\* SetStatus without the role check
SetStatusAnyRole(c, u, status, resolution) ==
    [code |-> 200,
     doc |-> [c EXCEPT !.status = status,
                       !.resolution = IF resolution # ""
                                      THEN [text |-> resolution, by |-> u]
                                      ELSE @]]

\* the body of PATCH /complaints/:id/status after validation and lookup
SetStatus(c, u, status, resolution) ==
    IF Role(u) # "admin"
    THEN [code |-> 403, doc |-> c]
    ELSE [code |-> 200,
          doc |-> [c EXCEPT !.status = status,
                            !.resolution = IF resolution # ""
                                           THEN [text |-> resolution, by |-> u]
                                           ELSE @]]

\* PATCH /complaints/:id/status up to the post('save') hook
PatchStatus(u, id, status, resolution) ==
    /\ UNCHANGED <<nextId, categories, nextCat, nextSub>>
    /\ IF status \notin StatusEnum
       THEN /\ UNCHANGED <<complaints, procs>>
            /\ Respond("status", 400)
       ELSE IF id \notin DOMAIN complaints
       THEN /\ UNCHANGED <<complaints, procs>>
            /\ Respond("status", 404)
       ELSE IF SetStatus(complaints[id], u, status, resolution).code # 200
       THEN /\ UNCHANGED <<complaints, procs>>
            /\ Respond("status", SetStatus(complaints[id], u, status, resolution).code)
       ELSE /\ HasFreeProc
            /\ LET c == PreSave(SetStatus(complaints[id], u, status, resolution).doc)
               IN /\ complaints' = [complaints EXCEPT ![id] = c]
                  /\ procs' = [procs EXCEPT ![FreeProc] = StartPostSave("status", id, c)]
            /\ UNCHANGED resp

\* the read routes without the owner filter
UserFilterOpen(u, c) == TRUE

\* req.user.role === 'admin' ? {} : { user: req.user._id }
UserFilter(u, c) == Role(u) = "admin" \/ c.user = u

\* the documents of a response body: id and owner of each
Returned(ids) == [n \in 1..Len(ids) |-> [id |-> ids[n], user |-> complaints[ids[n]].user]]

\* GET /complaints/:id
GetComplaint(u, id) ==
    /\ UNCHANGED <<complaints, nextId, categories, nextCat, nextSub, procs>>
    /\ IF id \in DOMAIN complaints /\ UserFilter(u, complaints[id])
       THEN resp' = [op |-> "get", code |-> 200, caller |-> u,
                     body |-> Returned(<<id>>)]
       ELSE resp' = [op |-> "get", code |-> 404, caller |-> u, body |-> <<>>]

\* the query object of GET /complaints: an absent string parameter is "",
\* an absent category is the empty set; hits are the documents whose title
\* or description matches the search expression
Matches(u, c, status, priority, category) ==
    /\ UserFilter(u, c)
    /\ (status \notin {"", "all"} => c.status = status)
    /\ (priority # "" => c.priority = priority)
    /\ \A k \in category : c.category = k

\* { status: 1 } sorts the status strings
StatusRank(status) ==
    CASE status = "in-progress" -> 0
      [] status = "pending" -> 1
      [] status = "rejected" -> 2
      [] OTHER -> 3

\* the sort options; createdAt is the order of the ids
SortKey(sort, i) ==
    LET newestFirst == MaxComplaints - i
        width == MaxComplaints + 1
    IN CASE sort = "oldest" -> i
         [] sort = "priority-high" ->
                (2 - complaints[i].priorityValue) * width + newestFirst
         [] sort = "priority-low" ->
                complaints[i].priorityValue * width + newestFirst
         [] sort = "status" ->
                StatusRank(complaints[i].status) * width + newestFirst
         [] OTHER -> newestFirst

RECURSIVE Sorted(_, _)
Sorted(ids, sort) ==
    IF ids = {} THEN <<>>
    ELSE LET first == CHOOSE i \in ids :
                        \A j \in ids : SortKey(sort, i) <= SortKey(sort, j)
         IN <<first>> \o Sorted(ids \ {first}, sort)

\* .skip((page - 1) * limit).limit(limit)
Page(seq, page, limit) ==
    LET skip == (page - 1) * limit
        last == IF skip + limit < Len(seq) THEN skip + limit ELSE Len(seq)
    IN IF skip >= Len(seq) THEN <<>> ELSE SubSeq(seq, skip + 1, last)

\* GET /complaints
ListComplaints(u, status, priority, category, hits, sort, page, limit) ==
    /\ UNCHANGED <<complaints, nextId, categories, nextCat, nextSub, procs>>
    /\ LET found == {i \in DOMAIN complaints \cap hits :
                        Matches(u, complaints[i], status, priority, category)}
       IN resp' = [op |-> "list", code |-> 200, caller |-> u,
                   body |-> Returned(Page(Sorted(found, sort), page, limit))]

(* --------------------------------------------------------- specifications ---- *)
Filers == {"u1", "u2"}

\* a client names the category and subcategory ids it has been shown, or an
\* id that matches no document
NoId == 0
KnownCats == DOMAIN categories
KnownSubs == UNION {DOMAIN categories[k].subCategories : k \in DOMAIN categories}

\* the steps of a suspended complaint.save()
HookSteps ==
    \/ \E p \in ProcIds, mailOk \in BOOLEAN : HookFind(p, mailOk)
    \/ \E p \in ProcIds : HookCountSub(p)
    \/ \E p \in ProcIds : HookCountUser(p)
    \/ \E p \in ProcIds, applied \in BOOLEAN, mailOk \in BOOLEAN :
            HookSave(p, applied, mailOk)

\* the steps of a suspended category handler
CategorySteps ==
    \/ \E p \in ProcIds : InsertCategory(p)
    \/ \E p \in ProcIds, applied \in BOOLEAN : SaveCategory(p, applied)

\* Spec: one category, one filer; requests interleave at every await
ConcRequests ==
    \/ nextCat <= ConcCategories /\ CreateCategory("Billing")
    \/ \E k \in 1..ConcCategories, name \in SubNames : AddSubCategory(k, name)
    \/ \E k \in 1..ConcCategories, s \in SubIds : DeleteSubCategory(k, s)
    \/ \E k \in KnownCats, s \in KnownSubs :
            nextId <= ConcComplaints /\ CreateComplaint("u1", k, s, "none")
    \/ \E id \in 1..ConcComplaints : DeleteComplaint("u1", id)

Next ==
    \/ ConcRequests
    \/ \E k \in 1..ConcCategories : DeleteCategory(k)
    \/ \E p \in ProcIds : RemoveCategory(p)
    \/ CategorySteps
    \/ HookSteps

Spec == Init /\ [][Next]_vars

\* SeqSpec: every request runs to completion before the next one starts
CounterPatches ==
    {[category |-> k] : k \in KnownCats}
        \cup {[category |-> k, subCategory |-> s] : k \in KnownCats, s \in KnownSubs}

\* the admin sets up Billing with Refund, then Service with Delay
CatNameAt(k) == IF k = 1 THEN "Billing" ELSE "Service"
SubNameAt(s) == IF s = 1 THEN "Refund" ELSE "Delay"

SeqRequests(maxComplaints) ==
    \/ Quiescent /\ CreateCategory(CatNameAt(nextCat))
    \/ Quiescent /\ nextSub < nextCat /\ AddSubCategory(nextSub, SubNameAt(nextSub))
    \/ \E u \in Filers, k \in KnownCats, s \in KnownSubs :
            Quiescent /\ nextId <= maxComplaints /\ CreateComplaint(u, k, s, "none")
    \/ \E u \in Filers, id \in 1..maxComplaints :
            Quiescent /\ DeleteComplaint(u, id)

SeqNext == SeqRequests(SeqComplaints) \/ CategorySteps \/ HookSteps

SeqSpec == Init /\ [][SeqNext]_vars

\* RecatSpec: SeqSpec and the filer's PUT with a new category
RecatNext ==
    \/ SeqRequests(RecatComplaints)
    \/ \E u \in Filers, id \in 1..RecatComplaints, body \in CounterPatches :
            Quiescent /\ UpdateComplaint(u, id, body, TRUE)
    \/ CategorySteps
    \/ HookSteps

RecatSpec == Init /\ [][RecatNext]_vars

\* RaceSpec: the taxonomy is set up request by request; complaint creations
\* interleave with each other at every await of their hooks
TaxonomyIdle == \A p \in ProcIds : procs[p].pc \notin {"insertCategory", "saveCategory"}

RaceRequests ==
    \/ Quiescent /\ nextCat <= ConcCategories /\ CreateCategory(CatNameAt(nextCat))
    \/ \E k \in KnownCats : Quiescent /\ AddSubCategory(k, SubNameAt(nextSub))
    \/ \E u \in Filers, k \in KnownCats, s \in KnownSubs :
            TaxonomyIdle /\ nextId <= RaceComplaints /\ CreateComplaint(u, k, s, "none")

RaceNext == RaceRequests \/ CategorySteps \/ HookSteps

RaceSpec == Init /\ [][RaceNext]_vars

\* LifecycleSpec: the routes of one complaint collection, no taxonomy; every
\* request runs to completion before the next one starts
LifecyclePatches ==
    {[priority |-> pr] : pr \in PriorityEnum \cup {"urgent"}}
        \cup {[status |-> st] : st \in {"pending", "resolved"}}
        \cup {[priorityValue |-> 0]}

LifecycleRequests ==
    \/ \E u \in Filers, priority \in {"none", "low"} :
            Quiescent /\ nextId <= LifeComplaints
                /\ CreateComplaint(u, NoId, NoId, priority)
    \/ \E u \in Users, id \in 1..LifeComplaints :
            Quiescent /\ DeleteComplaint(u, id)
    \/ \E u \in Users, id \in 1..LifeComplaints, body \in LifecyclePatches,
          mailOk \in BOOLEAN : Quiescent /\ UpdateComplaint(u, id, body, mailOk)
    \/ \E u \in Users, id \in 1..LifeComplaints :
            Quiescent /\ AddComment(u, id)
    \/ \E u \in Users, id \in 1..LifeComplaints, mailOk \in BOOLEAN :
            Quiescent /\ ShareEmail(u, id, mailOk)
    \/ \E u \in Users, id \in 1..LifeComplaints :
            Quiescent /\ ShareSocial(u, id)
    \/ \E u \in Users, id \in 1..LifeComplaints,
          status \in StatusEnum \cup {"closed"}, resolution \in {"", "fixed"} :
            Quiescent /\ PatchStatus(u, id, status, resolution)

LifecycleNext ==
    \/ LifecycleRequests
    \/ \E p \in ProcIds, mailOk \in BOOLEAN : HookFind(p, mailOk)

LifecycleSpec == Init /\ [][LifecycleNext]_vars

\* TaxonomySpec: SeqSpec and the admin's deletions of subcategories and
\* categories; every request runs to completion before the next one starts
TaxonomyNext ==
    \/ SeqRequests(TaxComplaints)
    \/ \E k \in KnownCats, s \in KnownSubs : Quiescent /\ DeleteSubCategory(k, s)
    \/ \E k \in KnownCats : Quiescent /\ DeleteCategory(k)
    \/ \E u \in Filers, k \in KnownCats, s \in KnownSubs :
            Quiescent /\ nextId <= TaxComplaints
                /\ PostComplaint(u, k, s, "none", FALSE)
    \/ \E p \in ProcIds : RemoveCategory(p)
    \/ CategorySteps
    \/ HookSteps

TaxonomySpec == Init /\ [][TaxonomyNext]_vars


\* ReadSpec: two filers' complaints, the admin's status changes and the read
\* routes called by every principal
SortOptions == {"newest", "oldest", "priority-high", "priority-low", "status"}

\* the filters of a list request: none, or one of status, priority, category
Queries ==
    {[status |-> "all", priority |-> "", category |-> {}],
     [status |-> "pending", priority |-> "", category |-> {}],
     [status |-> "", priority |-> "low", category |-> {}],
     [status |-> "", priority |-> "", category |-> {NoId}]}

\* a search expression matches every document or only the first one
SearchHits == {ComplaintIds, {1}}

ReadNext ==
    \/ \E u \in Filers, priority \in {"low", "high"} :
            Quiescent /\ nextId <= ReadComplaints
                /\ CreateComplaint(u, NoId, NoId, priority)
    \/ \E id \in 1..ReadComplaints :
            Quiescent /\ PatchStatus("adm", id, "resolved", "fixed")
    \/ \E p \in ProcIds : HookFind(p, TRUE)
    \/ \E u \in Users, id \in 1..ReadComplaints : GetComplaint(u, id)
    \/ \E u \in Users, q \in Queries, hits \in SearchHits,
          sort \in SortOptions, page \in 1..MaxPage, limit \in 1..MaxLimit :
            ListComplaints(u, q.status, q.priority, q.category, hits, sort, page, limit)

ReadSpec == Init /\ [][ReadNext]_vars

\* NameSpec: the admin's createCategory and updateCategory requests
\* interleave at every await
NameNext ==
    \/ \E name \in CatNames : CreateCategory(name)
    \/ \E k \in CatIds, name \in CatNames : UpdateCategory(k, name)
    \/ \E p \in ProcIds : CheckCategoryName(p)
    \/ CategorySteps

NameSpec == Init /\ [][NameNext]_vars

\* SubNameSpec: the admin's subcategory requests on one category interleave
\* at every await
SubNameNext ==
    \/ Quiescent /\ nextCat <= ConcCategories /\ CreateCategory(CatNameAt(nextCat))
    \/ \E k \in KnownCats, name \in SubNames : AddSubCategory(k, name)
    \/ \E k \in KnownCats, s \in KnownSubs, name \in SubNames :
            UpdateSubCategory(k, s, name)
    \/ \E k \in KnownCats, s \in KnownSubs : DeleteSubCategory(k, s)
    \/ CategorySteps

SubNameSpec == Init /\ [][SubNameNext]_vars

\* OwnerSpec: two filers' complaints and the requests every principal can
\* send on them; every request runs to completion before the next one starts
OwnerPatches ==
    {[status |-> "closed"], [comments |-> <<>>]}

OwnerNext ==
    \/ \E u \in Filers :
            Quiescent /\ nextId <= OwnerComplaints
                /\ CreateComplaint(u, NoId, NoId, "none")
    \/ \E u \in Users, id \in 1..OwnerComplaints :
            Quiescent /\ DeleteComplaint(u, id)
    \/ \E u \in Users, id \in 1..OwnerComplaints, body \in OwnerPatches :
            Quiescent /\ UpdateComplaint(u, id, body, TRUE)
    \/ \E u \in Users, id \in 1..OwnerComplaints :
            Quiescent /\ AddComment(u, id)
    \/ \E u \in Users, id \in 1..OwnerComplaints :
            Quiescent /\ ShareEmail(u, id, TRUE)
    \/ \E u \in Users, id \in 1..OwnerComplaints :
            Quiescent /\ ShareSocial(u, id)
    \/ \E p \in ProcIds : HookFind(p, TRUE)

OwnerSpec == Init /\ [][OwnerNext]_vars

\* TouchSpec: SeqSpec and the requests that save an existing complaint:
\* comment, share and status transition
TouchNext ==
    \/ SeqRequests(TouchComplaints)
    \/ \E u \in Filers, id \in 1..TouchComplaints : Quiescent /\ AddComment(u, id)
    \/ \E u \in Filers, id \in 1..TouchComplaints : Quiescent /\ ShareSocial(u, id)
    \/ \E id \in DOMAIN complaints :
            Quiescent /\ complaints[id].status = "pending"
                /\ PatchStatus("adm", id, "in-progress", "")
    \/ CategorySteps
    \/ HookSteps

TouchSpec == Init /\ [][TouchNext]_vars

(* ----------------------------------------------------------------- claims ---- *)
\* the whole post('save') hook on a category document, run without
\* interleaving against the complaint collection `store`
Reconcile(doc, store, c) ==
    LET counted == IF c.subCategory \in DOMAIN doc.subCategories
                   THEN SetSubTotal(doc, c.subCategory,
                            CountSub(store, c.category, c.subCategory))
                   ELSE doc
        idx == UserCountIndex(counted, c.user)
    IN CalculateTotalComplaints(
            IF idx = 0
            THEN PushUserCount(counted, store, c.category, c.user)
            ELSE SetUserCount(counted, idx, CountUser(store, c.category, c.user)))

NoneDeleted == DOMAIN complaints = 1..(nextId - 1)

\* C1: N creations under one (category, subCategory), interleaved in any
\* order: once every reconciliation has completed, the subcategory's
\* totalComplaints is N.
C1_NoLostUpdate ==
    (Quiescent /\ NoneDeleted) =>
        \A k \in DOMAIN categories : \A s \in DOMAIN categories[k].subCategories :
            (/\ complaints # EmptyFcn
             /\ \A i \in DOMAIN complaints :
                    complaints[i].category = k /\ complaints[i].subCategory = s)
            => categories[k].subCategories[s].totalComplaints
                    = Cardinality(DOMAIN complaints)

\* C2: after any sequence of completed creations and deletions, every
\* subcategory's totalComplaints is the number of stored complaints that
\* reference its (category, subCategory) pair.
C2_SubTotalIsCount ==
    Quiescent =>
        \A k \in DOMAIN categories : \A s \in DOMAIN categories[k].subCategories :
            categories[k].subCategories[s].totalComplaints = CountSub(complaints, k, s)

\* C3: in every state each category's totalComplaints is the sum of the
\* totalComplaints of its subcategories.
C3_TotalIsSum ==
    \A k \in DOMAIN categories :
        categories[k].totalComplaints =
            SumOver([s \in DOMAIN categories[k].subCategories |->
                        categories[k].subCategories[s].totalComplaints],
                    DOMAIN categories[k].subCategories)

\* C4: after any sequence of completed creations, updates and deletions,
\* every userCounts entry holds the number of stored complaints of its user
\* in its category.
C4_UserCountIsCount ==
    Quiescent =>
        \A k \in DOMAIN categories : \A i \in 1..Len(categories[k].userCounts) :
            categories[k].userCounts[i].count
                = CountUser(complaints, k, categories[k].userCounts[i].user)

\* C5: reconciliation is idempotent: run twice in a row for a stored
\* complaint, the second run leaves the category document as the first
\* left it.
C5_ReconcileIdempotent ==
    \A id \in DOMAIN complaints :
        complaints[id].category \in DOMAIN categories =>
            LET once == Reconcile(categories[complaints[id].category],
                                  complaints, complaints[id])
            IN Reconcile(once, complaints, complaints[id]) = once

\* C6: a userCounts entry created by the hook carries the number of
\* complaints stored for its (category, user) when the hook runs.
C6_NewEntryIsCount ==
    [][\A p \in ProcIds :
        (/\ procs[p].pc \in {"find", "countSub"}
         /\ procs'[p].pc = "save"
         /\ Len(procs'[p].mem.userCounts) > Len(procs'[p].orig.userCounts))
        => procs'[p].mem.userCounts[Len(procs'[p].mem.userCounts)].count
                = CountUser(complaints, procs[p].category, procs[p].user)]_vars

Terminal == {"resolved", "rejected"}

\* C7: resolved and rejected are terminal: no operation changes the status
\* of a complaint that is resolved or rejected.
C7_TerminalIsFinal ==
    [][\A id \in DOMAIN complaints \cap DOMAIN complaints' :
        complaints[id].status \in Terminal
            => complaints'[id].status = complaints[id].status]_vars

StatusEdges ==
    {<<"pending", "in-progress">>, <<"in-progress", "resolved">>,
     <<"pending", "rejected">>, <<"in-progress", "rejected">>}

\* C8: every change of a complaint's status is one of the four edges of the
\* state machine.
C8_OnlyLegalEdges ==
    [][\A id \in DOMAIN complaints \cap DOMAIN complaints' :
        complaints'[id].status # complaints[id].status
            => <<complaints[id].status, complaints'[id].status>> \in StatusEdges]_vars

\* C9: a status transition requested by a principal who is not an admin on
\* an existing complaint is answered 403 and changes neither the complaint
\* collection nor starts a save.
C9_NonAdminForbidden ==
    [][\A u \in Users, id \in DOMAIN complaints, status \in StatusEnum,
         resolution \in {"", "fixed"} :
        (Role(u) # "admin" /\ PatchStatus(u, id, status, resolution))
            => /\ resp' = [op |-> "status", code |-> 403]
               /\ complaints' = complaints
               /\ procs' = procs]_vars

C9_Witness ==
    /\ resp = [op |-> "status", code |-> 403]
    /\ \E id \in DOMAIN complaints : complaints[id].status = "pending"

PriorityTable == [low |-> 0, medium |-> 1, high |-> 2]

\* C10: in every state, every stored complaint's priorityValue is the value
\* of its priority: low 0, medium 1, high 2.
C10_PriorityValueInStep ==
    \A id \in DOMAIN complaints :
        /\ complaints[id].priority \in DOMAIN PriorityTable
        /\ complaints[id].priorityValue = PriorityTable[complaints[id].priority]

\* C11: in every state a complaint whose status is resolved has a stored
\* resolution with a text, recorded by an admin.
C11_ResolvedHasResolution ==
    \A id \in DOMAIN complaints :
        complaints[id].status = "resolved"
            => /\ complaints[id].resolution.text # ""
               /\ complaints[id].resolution.by \in Users
               /\ Role(complaints[id].resolution.by) = "admin"

\* C12: deleteSubCategory on a subcategory whose stored totalComplaints is
\* positive, and deleteCategory on a category whose stored totalComplaints is
\* positive, answer 400, leave every category document as it is and start
\* no save.
C12_DeleteRefusedWhileCounted ==
    [][/\ \A k \in DOMAIN categories, s \in SubIds :
            (/\ s \in DOMAIN categories[k].subCategories
             /\ categories[k].subCategories[s].totalComplaints > 0
             /\ DeleteSubCategory(k, s))
                => /\ resp' = [op |-> "deleteSubCategory", code |-> 400]
                   /\ categories' = categories
                   /\ procs' = procs
       /\ \A k \in DOMAIN categories :
            (categories[k].totalComplaints > 0 /\ DeleteCategory(k))
                => /\ resp' = [op |-> "deleteCategory", code |-> 400]
                   /\ categories' = categories
                   /\ procs' = procs]_vars

C12_Witness ==
    /\ resp = [op |-> "deleteSubCategory", code |-> 400]
    /\ \E k \in DOMAIN categories : \E s \in DOMAIN categories[k].subCategories :
            categories[k].subCategories[s].totalComplaints > 0

\* C13: once no stored complaint references a subcategory any more (every
\* complaint filed under it has been deleted by its owner and every request
\* has completed), deleteSubCategory on it is not refused: the handler goes
\* on to save the category without the subcategory.
C13_DeleteAfterCleanup ==
    [][\A k \in DOMAIN categories, s \in SubIds :
        (/\ Quiescent
         /\ nextId > 1
         /\ s \in DOMAIN categories[k].subCategories
         /\ CountSub(complaints, k, s) = 0
         /\ DeleteSubCategory(k, s))
            => \E p \in ProcIds :
                /\ procs'[p].pc = "saveCategory"
                /\ s \notin DOMAIN procs'[p].mem.subCategories]_vars

\* C14: a response of the read routes to a principal who is not an admin
\* holds only complaints of that principal; GET /complaints/:id on another
\* user's complaint answers 404; an admin's GET /complaints/:id on a stored
\* complaint answers 200 with that complaint.
C14_ReadsOnlyOwn ==
    /\ [](resp.op \in {"get", "list"} /\ Role(resp.caller) # "admin"
            => \A n \in 1..Len(resp.body) : resp.body[n].user = resp.caller)
    /\ [][\A u \in Users, id \in DOMAIN complaints :
            GetComplaint(u, id)
                => IF Role(u) = "admin" \/ complaints[id].user = u
                   THEN /\ resp'.code = 200
                        /\ resp'.body = <<[id |-> id, user |-> complaints[id].user]>>
                   ELSE /\ resp'.code = 404
                        /\ resp'.body = <<>>]_vars

C14_Witness ==
    /\ resp.op = "list"
    /\ resp.caller = "u1"
    /\ Len(resp.body) = 1
    /\ \E id \in DOMAIN complaints : complaints[id].user = "u2"

\* C15: an update (PUT) requested on a complaint whose status is resolved or
\* rejected changes nothing.
C15_NoUpdateWhenTerminal ==
    [][\A u \in Users, id \in DOMAIN complaints, body \in LifecyclePatches,
         mailOk \in BOOLEAN :
        (complaints[id].status \in Terminal /\ UpdateComplaint(u, id, body, mailOk))
            => complaints' = complaints]_vars

\* C16: an update (PUT) leaves the complaint's owner, status, resolution,
\* comments and share history as they were, whatever the request body.
C16_UpdateFrame ==
    [][\A u \in Users, id \in DOMAIN complaints, body \in LifecyclePatches,
         mailOk \in BOOLEAN :
        UpdateComplaint(u, id, body, mailOk)
            => /\ complaints'[id].user = complaints[id].user
               /\ complaints'[id].status = complaints[id].status
               /\ complaints'[id].resolution = complaints[id].resolution
               /\ complaints'[id].comments = complaints[id].comments
               /\ complaints'[id].sharedEmail = complaints[id].sharedEmail
               /\ complaints'[id].sharedSocial = complaints[id].sharedSocial]_vars

\* C17: when complaint.save() of a creation or of a status transition has
\* stored the complaint and the notification mail then fails, the request is
\* still answered with its success code.
C17_NotifyFailureSwallowed ==
    [][\A p \in ProcIds :
        (/\ procs[p].op \in MailOps
         /\ \/ HookFind(p, FALSE)
            \/ HookSave(p, TRUE, FALSE))
            => resp' = [op |-> procs[p].op, code |-> SuccessCode(procs[p].op)]]_vars

\* C18: when the complaint of a creation has been stored and the hook's
\* write of the category is refused by the store, the creation is still
\* answered 201 and the complaint remains stored.
C18_ReconcileFailureSwallowed ==
    [][\A p \in ProcIds :
        (procs[p].op = "create" /\ HookSave(p, FALSE, TRUE))
            => /\ resp' = [op |-> "create", code |-> 201]
               /\ procs[p].this \in DOMAIN complaints']_vars

\* C19: a creation whose attachment upload fails is answered 500 and stores
\* no complaint, changes no category document and starts no save, so no
\* counter is reconciled and no notification is sent.
C19_UploadFailureAborts ==
    [][\A u \in Users, k \in CatIds, s \in SubIds :
        PostComplaint(u, k, s, "none", FALSE)
            => /\ resp' = [op |-> "create", code |-> 500]
               /\ complaints' = complaints
               /\ nextId' = nextId
               /\ categories' = categories
               /\ procs' = procs]_vars

C19_Witness ==
    /\ resp = [op |-> "create", code |-> 500]
    /\ complaints = EmptyFcn
    /\ nextId = 1
    /\ KnownSubs # {}
    /\ Quiescent

\* C20: in every state no two categories have the same name, and
\* createCategory with a name that a stored category has answers 400 and
\* adds no category.
C20_UniqueNames ==
    /\ [](\A j \in DOMAIN categories, k \in DOMAIN categories :
            categories[j].name = categories[k].name => j = k)
    /\ [][\A name \in CatNames :
            ((\E k \in DOMAIN categories : categories[k].name = name)
                /\ CreateCategory(name))
                => /\ resp' = [op |-> "createCategory", code |-> 400]
                   /\ categories' = categories
                   /\ procs' = procs]_vars

\* two createCategory requests passed the name check and the second insert
\* was refused
C20_Witness ==
    /\ resp = [op |-> "createCategory", code |-> 500]
    /\ nextCat = 3
    /\ Cardinality(DOMAIN categories) = 1
    /\ Quiescent

\* C21: in every state no two subcategories of one category have the same
\* name.
C21_UniqueSubNames ==
    \A k \in DOMAIN categories :
        \A s \in DOMAIN categories[k].subCategories :
            \A t \in DOMAIN categories[k].subCategories :
                categories[k].subCategories[s].name = categories[k].subCategories[t].name
                    => s = t

\* C22: in every state each category's userCounts holds at most one entry
\* per user.
C22_OneEntryPerUser ==
    \A k \in DOMAIN categories :
        \A i \in 1..Len(categories[k].userCounts) :
            \A j \in 1..Len(categories[k].userCounts) :
                categories[k].userCounts[i].user = categories[k].userCounts[j].user
                    => i = j

\* C23: in every state every stored complaint's status is one of pending,
\* in-progress, resolved, rejected.
C23_StatusInEnum ==
    \A id \in DOMAIN complaints : complaints[id].status \in StatusEnum

\* the comment list of a step's start is a prefix of the list at its end
IsPrefix(a, b) == Len(a) <= Len(b) /\ SubSeq(b, 1, Len(a)) = a

\* C26: across every operation on a stored complaint, its earlier comment
\* list is a prefix of its current comment list.
C26_CommentsAppendOnly ==
    [][\A id \in DOMAIN complaints \cap DOMAIN complaints' :
        IsPrefix(complaints[id].comments, complaints'[id].comments)]_vars

\* C27: a delete requested by a principal who is not the complaint's owner
\* answers 404 and leaves the complaint store unchanged; a delete by the
\* owner removes that complaint and no other.
C27_DeleteOwnerOnly ==
    [][\A u \in Users, id \in DOMAIN complaints :
        DeleteComplaint(u, id)
            => IF complaints[id].user = u
               THEN /\ complaints' = Drop(complaints, id)
                    /\ resp' = [op |-> "delete", code |-> 200]
               ELSE /\ complaints' = complaints
                    /\ resp' = [op |-> "delete", code |-> 404]]_vars

C27_Witness ==
    /\ resp = [op |-> "delete", code |-> 404]
    /\ DOMAIN complaints = 1..OwnerComplaints

\* C29: update, delete, comment, share by email and share on social media
\* requested by a principal who is neither the complaint's owner nor an admin
\* leave that complaint unchanged.
C29_StrangerChangesNothing ==
    [][\A u \in Users, id \in DOMAIN complaints :
        (/\ complaints[id].user # u
         /\ Role(u) # "admin"
         /\ \/ \E body \in OwnerPatches : UpdateComplaint(u, id, body, TRUE)
            \/ DeleteComplaint(u, id)
            \/ AddComment(u, id)
            \/ ShareEmail(u, id, TRUE)
            \/ ShareSocial(u, id))
            => /\ id \in DOMAIN complaints'
               /\ complaints'[id] = complaints[id]]_vars

TouchOps == {"comment", "shareEmail", "shareSocial", "status"}

\* the counters of a category document
Counters(doc) ==
    [totalComplaints |-> doc.totalComplaints,
     subCategories |-> [s \in DOMAIN doc.subCategories |->
                            doc.subCategories[s].totalComplaints],
     userCounts |-> doc.userCounts]

\* C24: no step of a status transition, comment append or share operation
\* changes a category's totalComplaints, a subcategory's totalComplaints or
\* a userCounts entry.
C24_TouchLeavesCounters ==
    [][\A p \in ProcIds :
        (procs[p].op \in TouchOps /\ procs'[p] # procs[p])
            => \A k \in DOMAIN categories :
                /\ k \in DOMAIN categories'
                /\ Counters(categories'[k]) = Counters(categories[k])]_vars

\* C25: a complaint's resolution changes only in a step that takes its
\* status into resolved.
C25_ResolutionOnlyOnResolve ==
    [][\A id \in DOMAIN complaints \cap DOMAIN complaints' :
        complaints'[id].resolution # complaints[id].resolution
            => /\ complaints'[id].status = "resolved"
               /\ complaints[id].status # "resolved"]_vars

\* C28: in every state every stored complaint's category is a stored
\* category and its subCategory is a subcategory of that category.
C28_ReferentialIntegrity ==
    \A id \in DOMAIN complaints :
        /\ complaints[id].category \in DOMAIN categories
        /\ complaints[id].subCategory
                \in DOMAIN categories[complaints[id].category].subCategories

RECURSIVE SumCounts(_)
SumCounts(userCounts) ==
    IF userCounts = <<>> THEN 0
    ELSE Head(userCounts).count + SumCounts(Tail(userCounts))

\* C30: after any sequence of completed creations with no deletion, the
\* counts of every category's userCounts entries add up to the category's
\* totalComplaints.
C30_UserCountsSumToTotal ==
    (Quiescent /\ NoneDeleted) =>
        \A k \in DOMAIN categories :
            SumCounts(categories[k].userCounts) = categories[k].totalComplaints

====
